---------------------------- MODULE Spec2Model ----------------------------
(***************************************************************************)
(* A state machine of samples/samples/backup_sample.py: one invocation of  *)
(* the script, either through the command line (__main__'s dispatch) or by *)
(* a direct call of one sample function, running against the remote        *)
(* database service.  The script's steps are translated from the source;   *)
(* the client library and the service it talks to (operation handles,      *)
(* backups, pages of a listing) are not in the source and follow the       *)
(* contract the specification gives for the remote collaborator.           *)
(* Time is counted in seconds, as in the source.                           *)
(* Every request reaches the service: an operation may time out, fail or   *)
(* be refused, but the transport does not fail.  The paginated listing is  *)
(* followed for every page size from 1 to MaxPageSize; the sample passes   *)
(* SamplePageSize.  Expire times are counted in days.                      *)
(***************************************************************************)
EXTENDS Integers, Sequences, FiniteSets

VARIABLES
    command,            \* args.command, "None" without a subcommand, "direct" for a direct call
    fn,                 \* the sample function running ("none" before the dispatch)
    pc,                 \* position of the script
    error,              \* the exception that ended the script ("none" while none)
    op,                 \* the remote long-running operation
    cancelRequested,    \* operation.cancel() has reached the service
    resource,           \* the backup (or database) the function names, in the service
    refs,               \* number of databases referencing the backup, in the service
    restoreSinceReload, \* another client started a restore after the last reload
    descState,          \* the local descriptor's state field
    descRefs,           \* the local descriptor's referencing_databases (its length)
    descAfterWait,      \* the descriptor was reloaded after the wait returned normally
    elapsed,            \* seconds spent in the current wait
    waitOutcome,        \* how operation.result(timeout) ended
    doneSeen,           \* operation.done() has returned True
    issued,             \* requests the script has sent
    printed,            \* lines the script has printed
    expire_time,        \* the backup's expire time in the service (days)
    max_expire_time,    \* the backup's maximum expire time in the service (days)
    old_expire_time,    \* update_backup's local
    new_expire_time,    \* update_backup's local
    backups,            \* the instance's backups, in the service's listing order
    page_size,          \* page size of the paginated listing
    page_token,         \* next_page_token of the listing in progress
    listed,             \* names yielded by the unpaginated listing
    paged_backups,      \* list_backups' local set
    paged_names         \* the names in the order the paginated iteration yielded them

vars == <<command, fn, pc, error, op, cancelRequested, resource, refs,
          restoreSinceReload, descState, descRefs, descAfterWait, elapsed,
          waitOutcome, doneSeen, issued, printed, expire_time, max_expire_time,
          old_expire_time, new_expire_time, backups, page_size, page_token,
          listed, paged_backups, paged_names>>

svcVars == <<op, cancelRequested, resource, refs, restoreSinceReload,
             expire_time, max_expire_time, backups>>
descVars == <<descState, descRefs, descAfterWait>>
updVars == <<old_expire_time, new_expire_time>>
listVars == <<page_size, page_token, listed, paged_backups, paged_names>>
entryVars == <<command, fn>>

-----------------------------------------------------------------------------
(* Bounds of the model *)

PollInterval == 10
MaxWaitSeconds == 3000
MaxRefs == 2
MaxBackups == 4
MaxPageSize == 3
MaxCreateDay == 2
Slack == 3

(* Numbers of the program *)

CreateBackupTimeout == 2100
RestoreTimeout == 1600
DatabaseCreateTimeout == 30
CancelPollSleep == 300
DeleteReloadSleep == 30
ExtendDays == 30
MaxExpireDays == 366
SamplePageSize == 2

-----------------------------------------------------------------------------
(* The command line *)

Commands ==
    {"create_backup", "cancel_backup", "update_backup", "restore_database",
     "list_backups", "list_backup_operations", "list_database_operations",
     "delete_backup", "copy_backup"}

Functions ==
    Commands \cup {"create_backup_with_encryption_key",
                   "restore_database_with_encryption_key",
                   "create_database_with_version_retention_period"}

ParserArgs == {"instance_id", "database_id", "backup_id", "command"}

DispatchArgs(c) ==
    CASE c = "create_backup" -> <<"instance_id", "database_id", "backup_id">>
      [] c = "cancel_backup" -> <<"instance_id", "database_id", "backup_id">>
      [] c = "update_backup" -> <<"instance_id", "backup_id">>
      [] c = "restore_database" -> <<"instance_id", "database_id", "backup_id">>
      [] c = "list_backups" -> <<"instance_id", "database_id", "backup_id">>
      [] c = "list_backup_operations" -> <<"instance_id", "database_id", "backup_id">>
      [] c = "list_database_operations" -> <<"instance_id">>
      [] c = "delete_backup" -> <<"instance_id", "backup_id">>
      [] c = "copy_backup" -> <<"instance_id", "backup_id", "source_backup_id">>

Arity(f) ==
    CASE f = "create_backup" -> 4
      [] f = "create_backup_with_encryption_key" -> 4
      [] f = "restore_database" -> 3
      [] f = "restore_database_with_encryption_key" -> 4
      [] f = "cancel_backup" -> 3
      [] f = "list_backup_operations" -> 3
      [] f = "list_database_operations" -> 1
      [] f = "list_backups" -> 3
      [] f = "delete_backup" -> 2
      [] f = "update_backup" -> 2
      [] f = "create_database_with_version_retention_period" -> 3
      [] f = "copy_backup" -> 3

DispatchOutcome(c) ==
    IF c \notin Commands THEN "no_match"
    ELSE IF \E i \in 1..Len(DispatchArgs(c)) : DispatchArgs(c)[i] \notin ParserArgs
         THEN "AttributeError"
    ELSE IF Len(DispatchArgs(c)) # Arity(c) THEN "TypeError"
    ELSE "called"

-----------------------------------------------------------------------------
(* The functions by their shape *)

CreateFns == {"create_backup", "create_backup_with_encryption_key", "copy_backup"}
RestoreFns == {"restore_database", "restore_database_with_encryption_key"}
DatabaseFn == "create_database_with_version_retention_period"
WaitFns == CreateFns \cup RestoreFns \cup {DatabaseFn}
SubmitFns == WaitFns \cup {"cancel_backup"}

\* Faulty variant: every wait is given create_backup's timeout.
ResultTimeoutSame(f) == CreateBackupTimeout

ResultTimeout(f) ==
    IF f \in CreateFns THEN CreateBackupTimeout
    ELSE IF f \in RestoreFns THEN RestoreTimeout
    ELSE DatabaseCreateTimeout

SubmitRequest(f) ==
    IF f \in RestoreFns THEN "restore"
    ELSE IF f = DatabaseFn THEN "db_create"
    ELSE "create"

ResultLine(f) ==
    IF f \in CreateFns THEN "backup_created"
    ELSE IF f \in RestoreFns THEN "database_restored"
    ELSE "database_created"

-----------------------------------------------------------------------------
(* The client library and the service, as the script sees them *)

\* operation.result(timeout): the completed result, the operation's error,
\* a timeout once the deadline has passed, or one more poll interval of waiting.
OperationResult(o, e, t) ==
    IF o = "succeeded" THEN "done"
    ELSE IF o \in {"failed", "cancelled"} THEN "error"
    ELSE IF e >= t THEN "timeout"
    ELSE "pending"

\* operation.done(): true once the operation has ended, however it ended.
OperationDone(o) == o # "running"

\* backup.exists(): a backup that is still being created exists.
BackupExists(r) == r # "absent"

\* backup.is_ready(), on the reloaded descriptor.
IsReady(d) == d = "READY"

\* The state field a reload reads.
StateOf(r) == IF r = "ready" THEN "READY" ELSE "CREATING"

Min(a, b) == IF a <= b THEN a ELSE b

\* One ListBackups response: the items from the token on, at most size of
\* them, and the token of the next page (0 when none remains).
ListPage(coll, size, token) ==
    LET last == Min(token + size, Len(coll))
    IN  [items |-> SubSeq(coll, token + 1, last),
         next |-> IF last < Len(coll) THEN last ELSE 0]

Range(s) == {s[i] : i \in 1..Len(s)}

RECURSIVE SortedSeq(_)
SortedSeq(S) ==
    IF S = {} THEN <<>>
    ELSE LET m == CHOOSE x \in S : \A y \in S : x <= y
         IN  <<m>> \o SortedSeq(S \ {m})

-----------------------------------------------------------------------------
(* The script's own computations *)

\* Faulty variant: the new expire time is not capped by the maximum.
NewExpireTimeUncapped(maxExpire, oldExpire) == oldExpire + ExtendDays

\* update_backup: min(backup.max_expire_time, old_expire_time + timedelta(days=30))
NewExpireTime(maxExpire, oldExpire) == Min(maxExpire, oldExpire + ExtendDays)

\* Faulty variant: each page replaces the names gathered so far.
AddNamesOverwrite(set, items) == Range(items)

\* list_backups: paged_backups.add(backup.name) for the backups of one page
AddNames(set, items) == set \cup Range(items)

\* Faulty variant: the created database is never dropped.
AfterPrintNoDrop(f) == "returned"

\* Where each function goes after its result line.
AfterPrint(f) == IF f = DatabaseFn THEN "drop" ELSE "returned"

\* Where each function goes after the reload that follows the wait.
AfterReload(f) == IF f \in CreateFns THEN "assert" ELSE "print"

\* Where the creating functions go once the readiness assertion has passed.
AfterAssert(f) == IF f = "copy_backup" THEN "print" ELSE "reload2"

\* The sleep of each polling loop.
SleepSeconds(f) == IF f = "cancel_backup" THEN CancelPollSleep ELSE DeleteReloadSleep

-----------------------------------------------------------------------------
(* The initial states: the invocation and what the service holds *)

Target == IF command = "direct" THEN fn ELSE command

Init ==
    /\ \/ command \in Commands \cup {"None"} /\ fn = "none" /\ pc = "main"
       \/ command = "direct" /\ fn \in Functions /\ pc = "start"
    /\ error = "none"
    /\ op = "none"
    /\ cancelRequested = FALSE
    /\ resource \in {"absent", "ready"}
    /\ refs \in (IF Target = "delete_backup" /\ resource = "ready" THEN 0..MaxRefs ELSE {0})
    /\ restoreSinceReload = FALSE
    /\ descState = "unloaded"
    /\ descRefs = 0
    /\ descAfterWait = FALSE
    /\ elapsed = 0
    /\ waitOutcome = "none"
    /\ doneSeen = FALSE
    /\ issued = {}
    /\ printed = {}
    /\ max_expire_time \in (IF Target = "update_backup" /\ resource = "ready"
                            THEN MaxExpireDays..(MaxExpireDays + MaxCreateDay) ELSE {0})
    /\ expire_time \in (IF Target = "update_backup" /\ resource = "ready"
                        THEN (max_expire_time - ExtendDays - Slack)..max_expire_time ELSE {0})
    /\ old_expire_time = 0
    /\ new_expire_time = 0
    /\ backups \in (IF Target = "list_backups"
                    THEN {SortedSeq(S) : S \in SUBSET (1..MaxBackups)} ELSE {<<>>})
    /\ page_size \in (IF Target = "list_backups" THEN 1..MaxPageSize ELSE {SamplePageSize})
    /\ page_token = 0
    /\ listed = {}
    /\ paged_backups = {}
    /\ paged_names = <<>>

-----------------------------------------------------------------------------
(* __main__ *)

Raise(e) == pc' = "raised" /\ error' = e

Dispatch ==
    /\ pc = "main"
    /\ LET r == DispatchOutcome(command)
       IN  /\ fn' = IF r = "called" THEN command ELSE fn
           /\ pc' = CASE r = "called" -> "start"
                      [] r = "no_match" -> "returned"
                      [] OTHER -> "raised"
           /\ error' = IF r \in {"AttributeError", "TypeError"} THEN r ELSE error
           /\ printed' = IF r = "no_match" THEN printed \cup {"no_match"} ELSE printed
    /\ UNCHANGED <<command, svcVars, descVars, elapsed, waitOutcome, doneSeen,
                   issued, updVars, listVars>>

-----------------------------------------------------------------------------
(* create_backup, create_backup_with_encryption_key, copy_backup,          *)
(* restore_database, restore_database_with_encryption_key,                 *)
(* create_database_with_version_retention_period, and cancel_backup's      *)
(* first request                                                           *)

\* backup.create() / new_database.restore(backup) / db.create(): the service
\* refuses to create what already exists, else it starts the operation.
SubmitOperation ==
    /\ pc = "start"
    /\ fn \in SubmitFns
    /\ IF resource # "absent"
       THEN /\ Raise("AlreadyExists")
            /\ UNCHANGED <<op, resource, issued, elapsed>>
       ELSE /\ op' = "running"
            /\ resource' = "creating"
            /\ issued' = issued \cup {SubmitRequest(fn)}
            /\ elapsed' = 0
            /\ pc' = IF fn = "cancel_backup" THEN "cancel" ELSE "wait"
            /\ error' = error
    /\ UNCHANGED <<entryVars, cancelRequested, refs, restoreSinceReload, expire_time,
                   max_expire_time, backups, descVars, waitOutcome, doneSeen,
                   printed, updVars, listVars>>

\* Faulty variant: a wait that timed out cancels the operation before raising.
WaitResultCancelOnTimeout ==
    /\ pc = "wait"
    /\ LET r == OperationResult(op, elapsed, ResultTimeout(fn))
       IN  /\ elapsed' = IF r = "pending" THEN elapsed + PollInterval ELSE elapsed
           /\ waitOutcome' = CASE r = "done" -> "returned"
                               [] r = "timeout" -> "timeout"
                               [] r = "error" -> "failed"
                               [] OTHER -> waitOutcome
           /\ pc' = CASE r = "done" -> "reload"
                      [] r = "pending" -> "wait"
                      [] OTHER -> "raised"
           /\ error' = CASE r = "timeout" -> "TimeoutError"
                         [] r = "error" -> "OperationError"
                         [] OTHER -> error
           /\ cancelRequested' = (cancelRequested \/ r = "timeout")
           /\ issued' = IF r = "timeout" THEN issued \cup {"cancel"} ELSE issued
    /\ UNCHANGED <<entryVars, op, resource, refs, restoreSinceReload, expire_time,
                   max_expire_time, backups, descVars, doneSeen, printed,
                   updVars, listVars>>

\* Faulty variant: the script does not wait for the operation at all.
WaitResultSkipped ==
    /\ pc = "wait"
    /\ waitOutcome' = IF op = "succeeded" THEN "returned" ELSE waitOutcome
    /\ pc' = "reload"
    /\ UNCHANGED <<entryVars, error, svcVars, descVars, elapsed, doneSeen, issued,
                   printed, updVars, listVars>>

\* operation.result(timeout)
WaitResult ==
    /\ pc = "wait"
    /\ LET r == OperationResult(op, elapsed, ResultTimeout(fn))
       IN  /\ elapsed' = IF r = "pending" THEN elapsed + PollInterval ELSE elapsed
           /\ waitOutcome' = CASE r = "done" -> "returned"
                               [] r = "timeout" -> "timeout"
                               [] r = "error" -> "failed"
                               [] OTHER -> waitOutcome
           /\ pc' = CASE r = "done" -> "reload"
                      [] r = "pending" -> "wait"
                      [] OTHER -> "raised"
           /\ error' = CASE r = "timeout" -> "TimeoutError"
                         [] r = "error" -> "OperationError"
                         [] OTHER -> error
    /\ UNCHANGED <<entryVars, svcVars, descVars, doneSeen, issued, printed,
                   updVars, listVars>>

\* backup.reload() / new_database.reload() / db.reload() after the wait
ReloadAfterWait ==
    /\ pc = "reload"
    /\ fn \in WaitFns
    /\ IF resource = "absent"
       THEN /\ Raise("NotFound")
            /\ UNCHANGED <<descVars, issued>>
       ELSE /\ descState' = StateOf(resource)
            /\ descRefs' = refs
            /\ descAfterWait' = (waitOutcome = "returned")
            /\ issued' = issued \cup {"reload"}
            /\ pc' = AfterReload(fn)
            /\ error' = error
    /\ UNCHANGED <<entryVars, svcVars, elapsed, waitOutcome, doneSeen, printed,
                   updVars, listVars>>

\* assert backup.is_ready() is True
AssertReady ==
    /\ pc = "assert"
    /\ IF IsReady(descState)
       THEN pc' = AfterAssert(fn) /\ error' = error
       ELSE Raise("AssertionError")
    /\ UNCHANGED <<entryVars, svcVars, descVars, elapsed, waitOutcome, doneSeen,
                   issued, printed, updVars, listVars>>

\* the second backup.reload() of create_backup and create_backup_with_encryption_key
ReloadForPrint ==
    /\ pc = "reload2"
    /\ IF resource = "absent"
       THEN /\ Raise("NotFound")
            /\ UNCHANGED <<descVars, issued>>
       ELSE /\ descState' = StateOf(resource)
            /\ descRefs' = refs
            /\ descAfterWait' = (waitOutcome = "returned")
            /\ issued' = issued \cup {"reload"}
            /\ pc' = "print"
            /\ error' = error
    /\ UNCHANGED <<entryVars, svcVars, elapsed, waitOutcome, doneSeen, printed,
                   updVars, listVars>>

\* the result line
PrintResult ==
    /\ pc = "print"
    /\ fn \in WaitFns
    /\ printed' = printed \cup {ResultLine(fn)}
    /\ pc' = AfterPrint(fn)
    /\ UNCHANGED <<entryVars, error, svcVars, descVars, elapsed, waitOutcome,
                   doneSeen, issued, updVars, listVars>>

\* db.drop()
DropDatabase ==
    /\ pc = "drop"
    /\ resource' = "absent"
    /\ issued' = issued \cup {"drop"}
    /\ pc' = "returned"
    /\ UNCHANGED <<entryVars, error, op, cancelRequested, refs, restoreSinceReload,
                   expire_time, max_expire_time, backups, descVars, elapsed,
                   waitOutcome, doneSeen, printed, updVars, listVars>>

-----------------------------------------------------------------------------
(* cancel_backup *)

\* operation.cancel()
CancelOperation ==
    /\ pc = "cancel"
    /\ cancelRequested' = TRUE
    /\ issued' = issued \cup {"cancel"}
    /\ pc' = "poll"
    /\ UNCHANGED <<entryVars, error, op, resource, refs, restoreSinceReload,
                   expire_time, max_expire_time, backups, descVars, elapsed,
                   waitOutcome, doneSeen, printed, updVars, listVars>>

\* Faulty variant: the operation is polled once and the loop is left at once.
PollDoneOnce ==
    /\ pc = "poll"
    /\ doneSeen' = OperationDone(op)
    /\ pc' = "exists"
    /\ UNCHANGED <<entryVars, error, svcVars, descVars, elapsed, waitOutcome,
                   issued, printed, updVars, listVars>>

\* while not operation.done():
PollDone ==
    /\ pc = "poll"
    /\ doneSeen' = OperationDone(op)
    /\ pc' = IF OperationDone(op) THEN "exists" ELSE "sleep"
    /\ UNCHANGED <<entryVars, error, svcVars, descVars, elapsed, waitOutcome,
                   issued, printed, updVars, listVars>>

\* time.sleep(300) in cancel_backup, time.sleep(30) in delete_backup
Sleep ==
    /\ pc = "sleep"
    /\ elapsed < MaxWaitSeconds
    /\ elapsed' = elapsed + SleepSeconds(fn)
    /\ pc' = IF fn = "cancel_backup" THEN "poll" ELSE "reload"
    /\ UNCHANGED <<entryVars, error, svcVars, descVars, waitOutcome, doneSeen,
                   issued, printed, updVars, listVars>>

\* if backup.exists(): ... else: ...
CheckExists ==
    /\ pc = "exists"
    /\ issued' = issued \cup {"exists"}
    /\ IF BackupExists(resource)
       THEN /\ printed' = printed \cup {"created_before_cancel"}
            /\ pc' = "delete"
       ELSE /\ printed' = printed \cup {"cancelled"}
            /\ pc' = "returned"
    /\ UNCHANGED <<entryVars, error, svcVars, descVars, elapsed, waitOutcome,
                   doneSeen, updVars, listVars>>

\* Faulty variant: the backup that won the race is reported but not deleted.
DeleteAfterCancelSkipped ==
    /\ pc = "delete"
    /\ fn = "cancel_backup"
    /\ printed' = printed \cup {"backup_deleted"}
    /\ pc' = "returned"
    /\ UNCHANGED <<entryVars, error, svcVars, descVars, elapsed, waitOutcome,
                   doneSeen, issued, updVars, listVars>>

\* backup.delete(); print("Backup deleted.")
DeleteAfterCancel ==
    /\ pc = "delete"
    /\ fn = "cancel_backup"
    /\ resource' = "absent"
    /\ issued' = issued \cup {"delete"}
    /\ printed' = printed \cup {"backup_deleted"}
    /\ pc' = "returned"
    /\ UNCHANGED <<entryVars, error, op, cancelRequested, refs, restoreSinceReload,
                   expire_time, max_expire_time, backups, descVars, elapsed,
                   waitOutcome, doneSeen, updVars, listVars>>

-----------------------------------------------------------------------------
(* delete_backup *)

\* backup.reload(), before the loop and at the end of each round
ReloadReferences ==
    /\ fn = "delete_backup"
    /\ pc \in {"start", "reload"}
    /\ IF resource = "absent"
       THEN /\ Raise("NotFound")
            /\ UNCHANGED <<descVars, issued, restoreSinceReload>>
       ELSE /\ descState' = StateOf(resource)
            /\ descRefs' = refs
            /\ descAfterWait' = descAfterWait
            /\ restoreSinceReload' = FALSE
            /\ issued' = issued \cup {"reload"}
            /\ pc' = "loop"
            /\ error' = error
    /\ UNCHANGED <<entryVars, op, cancelRequested, resource, refs, expire_time,
                   max_expire_time, backups, elapsed, waitOutcome, doneSeen,
                   printed, updVars, listVars>>

\* Faulty variant: the references are not waited for.
TestReferencesOnce ==
    /\ pc = "loop"
    /\ pc' = "delete"
    /\ UNCHANGED <<entryVars, error, svcVars, descVars, elapsed, waitOutcome,
                   doneSeen, issued, printed, updVars, listVars>>

\* while backup.referencing_databases:
TestReferences ==
    /\ pc = "loop"
    /\ pc' = IF descRefs > 0 THEN "sleep" ELSE "delete"
    /\ UNCHANGED <<entryVars, error, svcVars, descVars, elapsed, waitOutcome,
                   doneSeen, issued, printed, updVars, listVars>>

\* backup.delete(): the service refuses while a database references the backup
DeleteBackup ==
    /\ pc = "delete"
    /\ fn = "delete_backup"
    /\ issued' = issued \cup {"delete"}
    /\ IF refs > 0
       THEN /\ Raise("FailedPrecondition")
            /\ resource' = resource
       ELSE /\ resource' = "absent"
            /\ pc' = "verify"
            /\ error' = error
    /\ UNCHANGED <<entryVars, op, cancelRequested, refs, restoreSinceReload,
                   expire_time, max_expire_time, backups, descVars, elapsed,
                   waitOutcome, doneSeen, printed, updVars, listVars>>

\* assert backup.exists() is False; print
VerifyDeleted ==
    /\ pc = "verify"
    /\ issued' = issued \cup {"exists"}
    /\ IF BackupExists(resource)
       THEN /\ Raise("AssertionError")
            /\ printed' = printed
       ELSE /\ printed' = printed \cup {"backup_deleted"}
            /\ pc' = "returned"
            /\ error' = error
    /\ UNCHANGED <<entryVars, svcVars, descVars, elapsed, waitOutcome, doneSeen,
                   updVars, listVars>>

-----------------------------------------------------------------------------
(* update_backup *)

\* backup.reload(); old_expire_time = backup.expire_time
ReloadForUpdate ==
    /\ pc = "start"
    /\ fn = "update_backup"
    /\ IF resource = "absent"
       THEN /\ Raise("NotFound")
            /\ UNCHANGED <<descVars, issued, old_expire_time>>
       ELSE /\ descState' = StateOf(resource)
            /\ descRefs' = refs
            /\ descAfterWait' = descAfterWait
            /\ old_expire_time' = expire_time
            /\ issued' = issued \cup {"reload"}
            /\ pc' = "update"
            /\ error' = error
    /\ UNCHANGED <<entryVars, svcVars, elapsed, waitOutcome, doneSeen, printed,
                   new_expire_time, listVars>>

\* new_expire_time = min(...); backup.update_expire_time(new_expire_time); print
\* The service refuses an expire time beyond the maximum.
UpdateExpireTime ==
    /\ pc = "update"
    /\ new_expire_time' = NewExpireTime(max_expire_time, old_expire_time)
    /\ issued' = issued \cup {"update"}
    /\ IF new_expire_time' > max_expire_time
       THEN /\ Raise("InvalidArgument")
            /\ UNCHANGED <<expire_time, printed>>
       ELSE /\ expire_time' = new_expire_time'
            /\ printed' = printed \cup {"backup_updated"}
            /\ pc' = "returned"
            /\ error' = error
    /\ UNCHANGED <<entryVars, op, cancelRequested, resource, refs, restoreSinceReload,
                   max_expire_time, backups, descVars, elapsed, waitOutcome,
                   doneSeen, old_expire_time, listVars>>

-----------------------------------------------------------------------------
(* list_backups, list_backup_operations, list_database_operations *)

\* for backup in instance.list_backups(): print(backup.name)
ListAllBackups ==
    /\ pc = "start"
    /\ fn = "list_backups"
    /\ listed' = Range(ListPage(backups, Len(backups), 0).items)
    /\ printed' = printed \cup {"all_backups"}
    /\ pc' = "filtered"
    /\ UNCHANGED <<entryVars, error, svcVars, descVars, elapsed, waitOutcome,
                   doneSeen, issued, updVars, page_size, page_token,
                   paged_backups, paged_names>>

\* the five filtered listings: they print and change nothing else
ListFilteredBackups ==
    /\ pc = "filtered"
    /\ printed' = printed \cup {"filtered_backups"}
    /\ paged_backups' = {}
    /\ paged_names' = <<>>
    /\ page_token' = 0
    /\ pc' = "paged"
    /\ UNCHANGED <<entryVars, error, svcVars, descVars, elapsed, waitOutcome,
                   doneSeen, issued, updVars, page_size, listed>>

\* for backup in instance.list_backups(page_size=2): one page of the iteration
FetchPage ==
    /\ pc = "paged"
    /\ LET page == ListPage(backups, page_size, page_token)
       IN  /\ paged_backups' = AddNames(paged_backups, page.items)
           /\ paged_names' = paged_names \o page.items
           /\ page_token' = page.next
           /\ pc' = IF page.next = 0 THEN "print_paged" ELSE "paged"
    /\ UNCHANGED <<entryVars, error, svcVars, descVars, elapsed, waitOutcome,
                   doneSeen, issued, printed, updVars, page_size, listed>>

\* for backup in paged_backups: print(backup)
PrintPaged ==
    /\ pc = "print_paged"
    /\ printed' = printed \cup {"paged_backups"}
    /\ pc' = "returned"
    /\ UNCHANGED <<entryVars, error, svcVars, descVars, elapsed, waitOutcome,
                   doneSeen, issued, updVars, listVars>>

\* list_backup_operations: the CreateBackup operations, then the CopyBackup ones;
\* list_database_operations: the OptimizeRestoredDatabase operations
ListOperations ==
    /\ fn \in {"list_backup_operations", "list_database_operations"}
    /\ pc \in {"start", "copy_operations"}
    /\ printed' = printed \cup {IF pc = "copy_operations" THEN "copy_operations"
                                ELSE IF fn = "list_backup_operations" THEN "create_operations"
                                ELSE "database_operations"}
    /\ pc' = IF fn = "list_backup_operations" /\ pc = "start"
             THEN "copy_operations" ELSE "returned"
    /\ UNCHANGED <<entryVars, error, svcVars, descVars, elapsed, waitOutcome,
                   doneSeen, issued, updVars, listVars>>

-----------------------------------------------------------------------------
(* The service and its other clients *)

\* The operation completes: the resource is fully formed.  A cancel request
\* does not prevent this.
ServiceCompletes ==
    /\ op = "running"
    /\ op' = "succeeded"
    /\ resource' = "ready"
    /\ UNCHANGED <<entryVars, pc, error, cancelRequested, refs, restoreSinceReload,
                   expire_time, max_expire_time, backups, descVars, elapsed,
                   waitOutcome, doneSeen, issued, printed, updVars, listVars>>

\* The service honours the cancel request: nothing is left of the resource.
ServiceCancels ==
    /\ op = "running"
    /\ cancelRequested
    /\ op' = "cancelled"
    /\ resource' = "absent"
    /\ UNCHANGED <<entryVars, pc, error, cancelRequested, refs, restoreSinceReload,
                   expire_time, max_expire_time, backups, descVars, elapsed,
                   waitOutcome, doneSeen, issued, printed, updVars, listVars>>

\* The operation fails: nothing is left of the resource.
ServiceFails ==
    /\ op = "running"
    /\ op' = "failed"
    /\ resource' = "absent"
    /\ UNCHANGED <<entryVars, pc, error, cancelRequested, refs, restoreSinceReload,
                   expire_time, max_expire_time, backups, descVars, elapsed,
                   waitOutcome, doneSeen, issued, printed, updVars, listVars>>

\* Another client restores a database from the backup delete_backup is about.
OtherClientRestores ==
    /\ fn = "delete_backup"
    /\ pc \notin {"returned", "raised"}
    /\ resource = "ready"
    /\ refs < MaxRefs
    /\ refs' = refs + 1
    /\ restoreSinceReload' = TRUE
    /\ UNCHANGED <<entryVars, pc, error, op, cancelRequested, resource, expire_time,
                   max_expire_time, backups, descVars, elapsed, waitOutcome,
                   doneSeen, issued, printed, updVars, listVars>>

\* A restored database finishes optimizing and stops referencing the backup.
RestoreOptimized ==
    /\ fn = "delete_backup"
    /\ pc \notin {"returned", "raised"}
    /\ refs > 0
    /\ refs' = refs - 1
    /\ UNCHANGED <<entryVars, pc, error, op, cancelRequested, resource,
                   restoreSinceReload, expire_time, max_expire_time, backups,
                   descVars, elapsed, waitOutcome, doneSeen, issued, printed,
                   updVars, listVars>>

-----------------------------------------------------------------------------

Next ==
    \/ Dispatch
    \/ SubmitOperation
    \/ WaitResult
    \/ ReloadAfterWait
    \/ AssertReady
    \/ ReloadForPrint
    \/ PrintResult
    \/ DropDatabase
    \/ CancelOperation
    \/ PollDone
    \/ Sleep
    \/ CheckExists
    \/ DeleteAfterCancel
    \/ ReloadReferences
    \/ TestReferences
    \/ DeleteBackup
    \/ VerifyDeleted
    \/ ReloadForUpdate
    \/ UpdateExpireTime
    \/ ListAllBackups
    \/ ListFilteredBackups
    \/ FetchPage
    \/ PrintPaged
    \/ ListOperations
    \/ ServiceCompletes
    \/ ServiceCancels
    \/ ServiceFails
    \/ OtherClientRestores
    \/ RestoreOptimized

Spec == Init /\ [][Next]_vars

-----------------------------------------------------------------------------
(* Properties *)

\* C1: in cancel_backup, backup.exists() is called, and backup.delete() issued,
\* only after create and cancel were sent and a call of operation.done() has
\* returned True; every poll that returned False is followed by a sleep.
C1_ExistsOnlyAfterDone ==
    fn = "cancel_backup" =>
        /\ (pc \in {"exists", "delete"} \/ "exists" \in issued \/ "delete" \in issued)
              => (doneSeen /\ OperationDone(op) /\ {"create", "cancel"} \subseteq issued)
        /\ pc = "sleep" => (~doneSeen /\ "exists" \notin issued /\ "cancel" \in issued)
        /\ pc = "poll" => ("cancel" \in issued /\ "exists" \notin issued)

\* C1 witness: the existence check was made after at least one poll that
\* returned False and its sleep.
C1_Witness ==
    fn = "cancel_backup" /\ "exists" \in issued /\ elapsed >= CancelPollSleep

\* C2: once the cancelled operation reports done the backup is fully formed or
\* absent; when cancel_backup returns no backup exists, and exactly one outcome
\* was reported: created before the cancel completed and deleted, or cancelled.
C2_CancelLeavesNoBackup ==
    fn = "cancel_backup" =>
        /\ doneSeen => resource \in {"ready", "absent"}
        /\ pc = "returned" =>
              /\ resource = "absent"
              /\ \/ printed = {"created_before_cancel", "backup_deleted"} /\ op = "succeeded"
                 \/ printed = {"cancelled"} /\ op \in {"cancelled", "failed"}

\* C2 witness: the operation completed in spite of the cancel request and
\* cancel_backup has returned.
C2_Witness ==
    /\ fn = "cancel_backup"
    /\ pc = "returned"
    /\ cancelRequested
    /\ op = "succeeded"

\* C3: each of the nine subcommands starts the sample function of its name,
\* and the "did not match" line is printed only for a command that is none of
\* the nine.
C3_EveryCommandStartsItsFunction ==
    /\ (command \in Commands /\ pc # "main")
          => (fn = command /\ error \notin {"TypeError", "AttributeError"})
    /\ "no_match" \in printed => command \notin Commands

\* C4: when operation.result(timeout) of a create, copy or restore function
\* times out, the script raises the timeout having sent nothing but the
\* request that started the operation: no cancel, no delete, no reload, no
\* print; the step that times out leaves the operation running as it was.
C4_TimeoutLeavesOperationAlone ==
    /\ [](fn \in CreateFns \cup RestoreFns /\ waitOutcome = "timeout" =>
            /\ pc = "raised"
            /\ error = "TimeoutError"
            /\ ~cancelRequested
            /\ issued = {SubmitRequest(fn)}
            /\ printed = {}
            /\ descState = "unloaded")
    /\ [][(waitOutcome # "timeout" /\ waitOutcome' = "timeout") =>
            (op = "running" /\ op' = op /\ resource' = resource
             /\ cancelRequested' = cancelRequested)]_vars

\* C4 witness: a restore whose wait timed out while the operation still runs.
C4_Witness ==
    /\ fn = "restore_database"
    /\ waitOutcome = "timeout"
    /\ op = "running"
    /\ elapsed >= RestoreTimeout

\* C5 as claimed: every wait, the two polling loops included, has ended by
\* its deadline plus one poll interval.  The loops are given no deadline in
\* the source; they are held here to the longest deadline any wait of the
\* file is given.
C5_EveryWaitEndsByDeadline ==
    /\ pc = "wait" => elapsed < ResultTimeout(fn) + PollInterval
    /\ (fn = "cancel_backup" /\ pc \in {"poll", "sleep"})
          => elapsed <= CreateBackupTimeout + CancelPollSleep
    /\ (fn = "delete_backup" /\ pc \in {"loop", "sleep", "reload"})
          => elapsed <= CreateBackupTimeout + DeleteReloadSleep

\* C5 amended: every operation.result(timeout) wait ends, with the result or
\* with a timeout, before its timeout plus one poll interval has passed; the
\* loops of cancel_backup and delete_backup never time out and are left only
\* when the operation is done, or the reloaded backup is unreferenced.
C5_ResultWaitsEndByDeadline ==
    /\ (fn \in CreateFns /\ pc = "wait") => elapsed < CreateBackupTimeout + PollInterval
    /\ (fn \in RestoreFns /\ pc = "wait") => elapsed < RestoreTimeout + PollInterval
    /\ (fn = DatabaseFn /\ pc = "wait") => elapsed < DatabaseCreateTimeout + PollInterval
    /\ (fn \in CreateFns /\ waitOutcome = "timeout")
          => (CreateBackupTimeout <= elapsed /\ elapsed < CreateBackupTimeout + PollInterval)
    /\ (fn \in RestoreFns /\ waitOutcome = "timeout")
          => (RestoreTimeout <= elapsed /\ elapsed < RestoreTimeout + PollInterval)
    /\ (fn = DatabaseFn /\ waitOutcome = "timeout")
          => (DatabaseCreateTimeout <= elapsed /\ elapsed < DatabaseCreateTimeout + PollInterval)
    /\ fn \in {"cancel_backup", "delete_backup"}
          => (waitOutcome = "none" /\ error # "TimeoutError")
    /\ (fn = "cancel_backup" /\ pc \in {"exists", "delete", "returned"}) => OperationDone(op)
    /\ (fn = "delete_backup" /\ pc = "delete") => descRefs = 0

\* C5 witness: a restore's wait has ended by timing out.
C5_Witness ==
    /\ fn \in RestoreFns
    /\ waitOutcome = "timeout"
    /\ pc = "raised"

\* C6: when the paginated iteration of list_backups has ended, the names it
\* gathered are exactly the names of the unpaginated listing, and no name was
\* yielded twice.
C6_PagesReassemble ==
    (fn = "list_backups" /\ pc \in {"print_paged", "returned"}) =>
        /\ paged_backups = listed
        /\ listed = Range(backups)
        /\ Len(paged_names) = Cardinality(listed)

\* C6 witness: a listing with the sample's page size that took several pages.
C6_Witness ==
    /\ fn = "list_backups"
    /\ pc = "returned"
    /\ page_size = SamplePageSize
    /\ Cardinality(paged_backups) > SamplePageSize

\* C7 as claimed: delete_backup sends the delete only after a reload that
\* showed no referencing database, and the delete is never refused and the
\* assertion that follows never fails.
C7_DeleteNeverRefused ==
    fn = "delete_backup" =>
        /\ pc = "delete" => descRefs = 0
        /\ error \notin {"FailedPrecondition", "AssertionError"}

\* C7 amended: delete_backup sends the delete only after a reload that showed
\* no referencing database, and sleeps and reloads while one is shown; the
\* delete is refused only when another client started a restore after that
\* reload, and then the backup remains; otherwise the backup is gone and the
\* assertion holds.
C7_DeleteRefusedOnlyByLateRestore ==
    fn = "delete_backup" =>
        /\ pc = "delete" => (descRefs = 0 /\ "reload" \in issued)
        /\ pc = "sleep" => (descRefs > 0 /\ "delete" \notin issued)
        /\ error = "FailedPrecondition" => (restoreSinceReload /\ resource = "ready")
        /\ ("delete" \in issued /\ ~restoreSinceReload) => resource = "absent"
        /\ error # "AssertionError"
        /\ pc = "returned" => (resource = "absent" /\ printed = {"backup_deleted"})

\* C7 witness: the backup was deleted after at least one round of waiting for
\* its references.
C7_Witness ==
    /\ fn = "delete_backup"
    /\ pc = "returned"
    /\ elapsed >= DeleteReloadSleep

\* C8: in the three creating functions the readiness assertion reads a
\* descriptor reloaded after the wait returned normally and never fails, and
\* the result line is printed only then, for an operation that succeeded.
C8_ReadyCheckedAfterWait ==
    fn \in CreateFns =>
        /\ pc = "assert" => (descAfterWait /\ waitOutcome = "returned")
        /\ error # "AssertionError"
        /\ "backup_created" \in printed
              => (waitOutcome = "returned" /\ op = "succeeded"
                  /\ descAfterWait /\ IsReady(descState))
        /\ waitOutcome \in {"timeout", "failed"} => (printed = {} /\ pc = "raised")
        /\ op = "running" => printed = {}

\* C8 witness: copy_backup has printed its result line.
C8_Witness ==
    /\ fn = "copy_backup"
    /\ "backup_created" \in printed
    /\ elapsed > 0

C10_DropOnlyAfterNormalWait ==
    fn = DatabaseFn =>
        /\ pc = "returned" => ("drop" \in issued /\ resource = "absent")
        /\ waitOutcome = "returned" => pc # "raised"
        /\ waitOutcome \in {"timeout", "failed"} => (pc = "raised" /\ "drop" \notin issued)
        /\ (waitOutcome = "timeout" /\ op = "succeeded") => resource = "ready"
        /\ "drop" \in issued => waitOutcome = "returned"

\* C10 witness: the wait timed out, the creation completed afterwards, and
\* the database is still there.
C10_Witness ==
    /\ fn = DatabaseFn
    /\ waitOutcome = "timeout"
    /\ pc = "raised"
    /\ resource = "ready"

=============================================================================
